---------------------------- MODULE Spec2Model ----------------------------
(*************************************************************************)
(* Model of the twitter_watcher module                                   *)
(* (src/modules/twitter_watcher/service.py): the in-memory watchlist,    *)
(* the background poller (_worker_loop, _seed_since_ids, _poll_once),    *)
(* the rpc handler (add, remove, list, set_interval) and the backup      *)
(* export / restore handlers.                                            *)
(*                                                                       *)
(* Every `with _lock:` block of the source is one atomic step; the       *)
(* network calls (get_user, get_users_tweets, the hook post) are steps   *)
(* of their own, taken with the lock released, so that the other         *)
(* threads interleave exactly where the source lets them.                *)
(*************************************************************************)
EXTENDS Integers, Sequences, FiniteSets, TLC

(*************************************************************************)
(* Bounds of the model.                                                  *)
(*************************************************************************)
\* Tweets posted per account: ids 1..MaxItem.
MaxItem == 2
\* Account ids the directory can return: 1..MaxUser.
MaxUser == 2
\* Wall clock values: 1..MaxClock.
MaxClock == 2
\* Request-handling threads that may be inside `add` at once: 1..MaxSlot.
MaxSlot == 2

(*************************************************************************)
(* Program constants.                                                    *)
(*************************************************************************)
DEFAULT_POLL_INTERVAL == 120
MIN_POLL_INTERVAL == 30
\* max_results of get_users_tweets
MaxResults == 5
\* delay before the first poll
FirstDelay == 10

(*************************************************************************)
(* Values.  since_id is None or the decimal string of a tweet id; tweet  *)
(* ids are positive, and str/int of an int is the canonical decimal, so  *)
(* the model keeps the number and writes None as 0.  user_id likewise    *)
(* (None / "" as 0), added_at likewise (null as 0).                      *)
(*************************************************************************)
None == 0
UserIds == 1..MaxUser
ItemIds == 1..MaxItem

(*************************************************************************)
(* Handles are sequences of characters; str.upper, str.strip and         *)
(* str.lstrip("@") are computed character by character.                  *)
(*************************************************************************)
UpperChar(c) ==
    CASE c = "a" -> "A"
      [] c = "b" -> "B"
      [] OTHER -> c

Upper(s) == [i \in 1..Len(s) |-> UpperChar(s[i])]

RECURSIVE LStripChar(_, _)
LStripChar(s, c) ==
    IF s # <<>> /\ Head(s) = c THEN LStripChar(Tail(s), c) ELSE s

RECURSIVE RStripChar(_, _)
RStripChar(s, c) ==
    IF s # <<>> /\ s[Len(s)] = c
    THEN RStripChar(SubSeq(s, 1, Len(s) - 1), c)
    ELSE s

\* str.strip(): whitespace off both ends
Strip(s) == RStripChar(LStripChar(s, " "), " ")

\* (data.get("username") or "").strip().lstrip("@")
NormalizeUsername(raw) == LStripChar(Strip(raw), "@")


(*************************************************************************)
(* _watchlist: a dict, kept as the sequence of its items in insertion    *)
(* order.  Each item carries the dict key and the WatchedUser fields.    *)
(*************************************************************************)
WatchedUser(key, username, user_id, since_id, added_at) ==
    [key |-> key, username |-> username, user_id |-> user_id,
     since_id |-> since_id, added_at |-> added_at]

DictKeys(d) == {d[i].key : i \in 1..Len(d)}

DictHas(d, k) == k \in DictKeys(d)

DictIndex(d, k) == CHOOSE i \in 1..Len(d) : d[i].key = k

DictGet(d, k) == d[DictIndex(d, k)]

\* d[k] = v: an existing key keeps its place, a new key goes last
DictSet(d, k, v) ==
    IF DictHas(d, k)
    THEN [d EXCEPT ![DictIndex(d, k)] = v]
    ELSE Append(d, v)

\* d.pop(k, None)
DictPop(d, k) ==
    IF DictHas(d, k)
    THEN LET i == DictIndex(d, k)
         IN  SubSeq(d, 1, i - 1) \o SubSeq(d, i + 1, Len(d))
    ELSE d

\* _watchlist[key].since_id = newest_id
SetSinceId(d, k, newest_id) ==
    [d EXCEPT ![DictIndex(d, k)].since_id = newest_id]

(*************************************************************************)
(* Sequence helpers.                                                     *)
(*************************************************************************)
SetMax(S) == CHOOSE x \in S : \A y \in S : y <= x

Range(s) == {s[i] : i \in 1..Len(s)}

\* all orders in which a set can be returned
Perms(S) ==
    {s \in [1..Cardinality(S) -> S] : \A x \in S : \E i \in 1..Cardinality(S) : s[i] = x}

RECURSIVE InsertSorted(_, _)
InsertSorted(s, x) ==
    IF s = <<>> THEN <<x>>
    ELSE IF x < Head(s) THEN <<x>> \o s
    ELSE <<Head(s)>> \o InsertSorted(Tail(s), x)

\* sorted(resp.data, key=lambda t: int(t.id))
RECURSIVE SortById(_)
SortById(s) ==
    IF s = <<>> THEN <<>>
    ELSE InsertSorted(SortById(SubSeq(s, 1, Len(s) - 1)), s[Len(s)])

(*************************************************************************)
(* State.                                                                *)
(*************************************************************************)
VARIABLES
    watchlist,       \* _watchlist
    poll_interval,   \* _poll_interval
    worker_running,  \* _worker_running
    last_poll_at,    \* _last_poll_at (None, or the clock value)
    creds,           \* the four Twitter keys are all set
    lock,            \* _lock: the thread that holds it
    rst,             \* where the thread of a restore request is inside its `with _lock`
    dispatched,      \* history: the <<user_id, tweet id>> pairs handed to
                     \* _fire_hook for the key TrackedKey while it has been in
                     \* the watchlist without a break and without a restore
    directory,       \* the platform's directory: handle (any case) -> account id
    token,           \* STARKBOT_INTERNAL_TOKEN is set
    hook_up,         \* the backend at BACKEND_URL answers httpx.post (else it raises)
    now,             \* the wall clock
    feed,            \* feed[u]: account u has posted tweets 1..feed[u]
    wpc,             \* where the worker thread is
    users,           \* the worker's snapshot list
    ui,              \* index of the current user of the snapshot
    tweets,          \* _poll_once: the sorted tweets of the current user
    ti,              \* _poll_once: index of the next tweet to fire
    newest,          \* _seed_since_ids: newest_id of the current user
    first_run,       \* _worker_loop: first_run
    delay,           \* _worker_loop: delay of the current sleep
    tlog,            \* history: what the current tick did, one record per user
    adds,            \* per request thread: where it is inside `add`
    reply            \* the last response a handler returned

vars == <<watchlist, poll_interval, worker_running, last_poll_at, creds, lock, rst, dispatched,
          directory, token, hook_up,
          now, feed, wpc, users, ui, tweets, ti, newest, first_run, delay,
          tlog, adds, reply>>

Slots == 1..MaxSlot

\* the handles the model uses
HandleLower == <<"a">>
HandleUpper == <<"A">>
HandleOther == <<"b">>
HandleAt == <<"@", "a">>

\* the key whose dispatches the history variable records
TrackedKey == Upper(HandleLower)

\* the accounts that exist on the platform, by uppercased handle
DirKeys == {Upper(HandleLower), Upper(HandleOther)}
Directory0 == [k \in DirKeys |-> IF k = Upper(HandleLower) THEN 1 ELSE MaxUser]

\* the thread that holds _lock: nobody, the worker, or a request thread
Holder(who, s) == [who |-> who, s |-> s]
Free == Holder("free", 0)
WorkerThread == Holder("worker", 0)
AddThread(s) == Holder("add", s)
RequestThread(op) == Holder(op, 0)

\* (mutant: the statements that follow the block run inside it)
AfterWith_StillHeld(t) == t

\* _lock when thread t has left a `with _lock:` block
AfterWith(t) == Free

\* (mutant: the block is entered without the lock)
Acquired_NotTaken(t) == Free

\* _lock when thread t has entered a `with _lock:` block
Acquired(t) == t

\* a restore thread outside its `with _lock:` block.  Inside it: the
\* entries it iterates (iter: whether they can be iterated), the index of
\* the next one, and (history) the watchlist it found
IdleRestore == [pc |-> "idle", entries |-> <<>>, iter |-> TRUE, i |-> 1,
                before |-> <<>>]

IdleAdd == [pc |-> "idle", username |-> <<>>, key |-> <<>>, user_id |-> None,
            added_at |-> None]

NoReply == [op |-> "none", st |-> "ok", msg |-> "", n |-> 0]

\* success(...) / error(...) / an exception that escapes the handler ("fault")
Reply(op, st, msg, n) == [op |-> op, st |-> st, msg |-> msg, n |-> n]

Init ==
    /\ watchlist = <<>>
    /\ poll_interval = DEFAULT_POLL_INTERVAL
    /\ worker_running = TRUE
    /\ last_poll_at = None
    /\ creds \in BOOLEAN
    /\ lock = Free
    /\ rst = IdleRestore
    /\ dispatched = {}
    /\ directory = Directory0
    /\ token \in BOOLEAN
    /\ hook_up = TRUE
    /\ now = 1
    /\ feed = [u \in UserIds |-> 0]
    /\ wpc = "start"
    /\ users = <<>>
    /\ ui = 1
    /\ tweets = <<>>
    /\ ti = 1
    /\ newest = None
    /\ first_run = TRUE
    /\ delay = 0
    /\ tlog = <<>>
    /\ adds = [s \in Slots |-> IdleAdd]
    /\ reply = NoReply

(*************************************************************************)
(* The environment: the clock advances, accounts post tweets.            *)
(*************************************************************************)
Tick ==
    /\ now < MaxClock
    /\ now' = now + 1
    /\ UNCHANGED <<watchlist, poll_interval, worker_running, last_poll_at, creds, lock, rst, dispatched, directory,
                   token, hook_up, feed, wpc, users, ui, tweets, ti, newest, first_run,
                   delay, tlog, adds, reply>>

Post(u) ==
    /\ feed[u] < MaxItem
    /\ feed' = [feed EXCEPT ![u] = @ + 1]
    /\ UNCHANGED <<watchlist, poll_interval, worker_running, last_poll_at, creds, lock, rst, dispatched, directory,
                   token, hook_up, now, wpc, users, ui, tweets, ti, newest, first_run,
                   delay, tlog, adds, reply>>

\* the backend goes down or comes back
BackendFlip ==
    /\ hook_up' = ~hook_up
    /\ UNCHANGED <<watchlist, poll_interval, worker_running, last_poll_at, creds, lock, rst,
                   dispatched, directory, token, now, feed, wpc, users, ui, tweets, ti,
                   newest, first_run, delay, tlog, adds, reply>>

\* an account posts more tweets between two fetches than one fetch returns
Burst(u) ==
    /\ feed[u] <= MaxItem
    /\ feed' = [feed EXCEPT ![u] = @ + MaxResults + 1]
    /\ UNCHANGED <<watchlist, poll_interval, worker_running, last_poll_at, creds, lock,
                   rst, dispatched, directory, token, hook_up, now, wpc, users, ui, tweets,
                   ti, newest, first_run, delay, tlog, adds, reply>>

\* a handle passes to another account (the old owner renamed or left)
Rename(k, u) ==
    /\ directory[k] # u
    /\ directory' = [directory EXCEPT ![k] = u]
    /\ UNCHANGED <<watchlist, poll_interval, worker_running, last_poll_at, creds, lock, rst, dispatched,
                   token, hook_up, now, feed, wpc, users, ui, tweets, ti, newest, first_run,
                   delay, tlog, adds, reply>>

(*************************************************************************)
(* The Feed Source: get_users_tweets(user_id, since_id=..., max_results) *)
(* answers with the max_results newest tweets of the account whose id is *)
(* above since_id (all of them when no since_id is passed).              *)
(*************************************************************************)
RECURSIVE NewestOf(_, _)
NewestOf(S, n) ==
    IF n = 0 \/ S = {} THEN {}
    ELSE LET m == SetMax(S) IN {m} \cup NewestOf(S \ {m}, n - 1)

\* `if user.since_id:` passes since_id only when it is truthy
GetUsersTweets(user_id, since_id, max_results) ==
    NewestOf({t \in 1..feed[user_id] : since_id = None \/ t > since_id}, max_results)

\* what a tick did with one user of its snapshot: the fetch's result ("fail",
\* "empty", "items"), the ids it returned, the ids handed to _fire_hook in
\* order, and the watermark write ("none" yet, "set", or "gone": key removed)
\* failed: the ids whose _fire_hook call delivered nothing (no token, or the
\* post raised and was logged)
LogEntry(user, res, got, sent, adv) ==
    [user |-> user, res |-> res, got |-> got, fired |-> sent, failed |-> <<>>,
     adv |-> adv]

(*************************************************************************)
(* _worker_loop                                                          *)
(*************************************************************************)
\* (mutant: a client is built whether or not the keys are set)
HasClient_Always(keys) == TRUE

\* _get_twitter_client() returns a client iff all four keys are set
HasClient(keys) == keys

\* client = _get_twitter_client(); if not client: return
WorkerStart ==
    /\ wpc = "start"
    /\ wpc' = IF HasClient(creds) THEN "seed_snap" ELSE "stopped"
    /\ UNCHANGED <<watchlist, poll_interval, worker_running, last_poll_at, creds, lock, rst, dispatched, directory,
                   token, hook_up, now, feed, users, ui, tweets, ti, newest, first_run,
                   delay, tlog, adds, reply>>

\* (mutant: the loop does not look at the flag)
KeepRunning_Always(flag) == TRUE

\* `while _worker_running` / `if not _worker_running: break`
KeepRunning(flag) == flag

\* the stop flag is set: _worker_running = False
Stop ==
    /\ worker_running
    /\ worker_running' = FALSE
    /\ UNCHANGED <<watchlist, poll_interval, last_poll_at, creds, lock, rst, dispatched,
                   directory, token, hook_up, now, feed, wpc, users, ui, tweets, ti, newest,
                   first_run, delay, tlog, adds, reply>>

\* while _worker_running: delay = 10 if first_run else _poll_interval
\* (mutant: the first wait is an interval like the others)
WaitFor_AlwaysInterval(first, interval) == interval

\* delay = 10 if first_run else _poll_interval
WaitFor(first, interval) == IF first THEN FirstDelay ELSE interval

WorkerLoopTop ==
    /\ wpc = "loop"
    /\ IF KeepRunning(worker_running)
       THEN /\ delay' = WaitFor(first_run, poll_interval)
            /\ first_run' = FALSE
            /\ wpc' = "sleep"
       ELSE /\ wpc' = "stopped"
            /\ UNCHANGED <<delay, first_run>>
    /\ UNCHANGED <<watchlist, poll_interval, worker_running, last_poll_at, creds, lock, rst, dispatched, directory,
                   token, hook_up, now, feed, users, ui, tweets, ti, newest, tlog,
                   adds, reply>>

\* time.sleep(delay) returns; if not _worker_running: break
WorkerWake ==
    /\ wpc = "sleep"
    /\ wpc' = IF KeepRunning(worker_running) THEN "poll_snap" ELSE "stopped"
    /\ UNCHANGED <<watchlist, poll_interval, worker_running, last_poll_at, creds, lock, rst, dispatched, directory,
                   token, hook_up, now, feed, users, ui, tweets, ti, newest, first_run,
                   delay, tlog, adds, reply>>

(*************************************************************************)
(* _seed_since_ids.  The locals (users, the loop index, newest_id) are   *)
(* reset when the function returns.                                      *)
(*************************************************************************)
\* the pc after user i of the seeding snapshot
SeedNext(snapshot, i) ==
    IF i + 1 > Len(snapshot) THEN "loop" ELSE "seed_fetch"

\* (mutant: the seeding pass takes every user of the watchlist)
SeedCandidates_All(d) == d

\* the users the seeding pass takes from the watchlist
SeedCandidates(d) == SelectSeq(d, LAMBDA u : u.since_id = None)

\* with _lock: users = [u for u in _watchlist.values() if u.since_id is None]
SeedSnapshot ==
    /\ wpc = "seed_snap"
    /\ lock = Free
    /\ lock' = AfterWith(WorkerThread)
    /\ LET snapshot == SeedCandidates(watchlist)
       IN  /\ users' = snapshot
           /\ wpc' = SeedNext(snapshot, 0)
    /\ ui' = 1
    /\ first_run' = TRUE
    /\ UNCHANGED <<watchlist, poll_interval, worker_running, last_poll_at, creds, rst, dispatched,
                   directory, token, hook_up, now, feed, tweets, ti, newest, delay, tlog, adds, reply>>

\* the loop goes on with the next user, or the function returns
SeedStep ==
    /\ wpc' = SeedNext(users, ui)
    /\ IF SeedNext(users, ui) = "loop"
       THEN users' = <<>> /\ ui' = 1
       ELSE ui' = ui + 1 /\ UNCHANGED users

\* get_users_tweets raises: logged, next user
SeedFetchFail ==
    /\ wpc = "seed_fetch"
    /\ SeedStep
    /\ UNCHANGED <<watchlist, poll_interval, worker_running, last_poll_at, creds, lock, rst, dispatched,
                   directory, token, hook_up, now, feed, tweets, ti, newest, first_run,
                   delay, tlog, adds, reply>>

\* resp = client.get_users_tweets(int(user.user_id), max_results=5);
\* newest_id = str(max(int(t.id) for t in resp.data))
SeedFetch ==
    /\ wpc = "seed_fetch"
    /\ LET got == GetUsersTweets(users[ui].user_id, None, MaxResults)
       IN  IF got = {}
           THEN /\ SeedStep
                /\ UNCHANGED newest
           ELSE /\ newest' = SetMax(got)
                /\ wpc' = "seed_advance"
                /\ UNCHANGED <<users, ui>>
    /\ UNCHANGED <<watchlist, poll_interval, worker_running, last_poll_at, creds, lock, rst, dispatched,
                   directory, token, hook_up, now, feed, tweets, ti, first_run, delay,
                   tlog, adds, reply>>

\* (mutant: the snapshot's object is written back without the membership test)
AdvanceSinceId_Resurrect(d, user, newest_id) ==
    DictSet(d, Upper(user.username), [user EXCEPT !.since_id = newest_id])

\* with _lock: if key in _watchlist: _watchlist[key].since_id = newest_id
\* (user is the snapshot's object)
AdvanceSinceId(d, user, newest_id) ==
    LET key == Upper(user.username)
    IN  IF DictHas(d, key) THEN SetSinceId(d, key, newest_id) ELSE d

SeedAdvance ==
    /\ wpc = "seed_advance"
    /\ lock = Free
    /\ lock' = AfterWith(WorkerThread)
    /\ watchlist' = AdvanceSinceId(watchlist, users[ui], newest)
    /\ newest' = None
    /\ SeedStep
    /\ UNCHANGED <<poll_interval, worker_running, last_poll_at, creds, rst, dispatched, directory,
                   token, hook_up, now, feed, tweets, ti, first_run, delay, tlog,
                   adds, reply>>

(*************************************************************************)
(* _poll_once.  tlog is history: what the tick has done so far.  It and  *)
(* the locals are reset when the function returns.                       *)
(*************************************************************************)
\* the pc after user i of the poll snapshot
PollNext(snapshot, i) ==
    IF i + 1 > Len(snapshot) THEN "poll_finish" ELSE "poll_fetch"

\* with _lock: users = list(_watchlist.values()); if not users: return
PollSnapshot ==
    /\ wpc = "poll_snap"
    /\ lock = Free
    /\ lock' = AfterWith(WorkerThread)
    /\ users' = watchlist
    /\ wpc' = IF watchlist = <<>> THEN "loop" ELSE "poll_fetch"
    /\ ui' = 1
    /\ UNCHANGED <<watchlist, poll_interval, worker_running, last_poll_at, creds, rst, dispatched,
                   directory, token, hook_up, now, feed, tweets, ti, newest, first_run,
                   delay, tlog, adds, reply>>

\* (mutant: the exception leaves the for loop and ends the tick)
PollOnError_AbortTick(snapshot, i) == "loop"

\* what the per-user `except Exception` does: log, go on with the next user
PollOnError(snapshot, i) == PollNext(snapshot, i)

\* get_users_tweets raises
PollFetchFail ==
    /\ wpc = "poll_fetch"
    /\ tlog' = Append(tlog, LogEntry(users[ui], "fail", {}, <<>>, "none"))
    /\ wpc' = PollOnError(users, ui)
    /\ ui' = ui + 1
    /\ UNCHANGED <<watchlist, poll_interval, worker_running, last_poll_at, creds, lock, rst, dispatched,
                   directory, token, hook_up, now, feed, users, tweets, ti, newest,
                   first_run, delay, adds, reply>>

\* (mutant: the tweets are walked in the order the feed returned them)
ProcessingOrder_Unsorted(resp) == resp

\* the order in which _poll_once walks the tweets of a response
ProcessingOrder(resp) == SortById(resp)

\* resp = client.get_users_tweets(...); if not resp.data: continue;
\* tweets = sorted(resp.data, key=lambda t: int(t.id))
PollFetch ==
    /\ wpc = "poll_fetch"
    /\ LET got == GetUsersTweets(users[ui].user_id, users[ui].since_id, MaxResults)
       IN  IF got = {}
           THEN /\ tlog' = Append(tlog, LogEntry(users[ui], "empty", {}, <<>>, "none"))
                /\ ui' = ui + 1
                /\ wpc' = PollNext(users, ui)
                /\ UNCHANGED <<tweets, ti>>
           ELSE /\ \E resp \in Perms(got) : tweets' = ProcessingOrder(resp)
                /\ ti' = 1
                /\ tlog' = Append(tlog, LogEntry(users[ui], "items", got, <<>>, "none"))
                /\ wpc' = "poll_dispatch"
                /\ UNCHANGED ui
    /\ UNCHANGED <<watchlist, poll_interval, worker_running, last_poll_at, creds, lock, rst, dispatched,
                   directory, token, hook_up, now, feed, users, newest, first_run, delay,
                   adds, reply>>

\* _fire_hook: no token -> return; httpx.post -> delivered, or raises and is logged
HookOutcomes(tok, up) ==
    IF ~tok THEN {"notoken"} ELSE IF up THEN {"sent"} ELSE {"failed"}

\* (mutant: _fire_hook has no try/except, a failed post raises into the tick)
HookRaises_Propagates(outcome) == outcome = "failed"

\* _fire_hook catches every Exception of httpx.post and returns normally
HookRaises(outcome) == FALSE

\* (mutant: the loop is left after its first tweet)
DispatchDone_AfterFirst(i, q) == TRUE

\* `for tweet in tweets` is exhausted once tweet i has been handled
DispatchDone(i, q) == i + 1 > Len(q)

\* for tweet in tweets: _fire_hook({...}); an exception out of the loop body
\* is caught by the user's try/except like a failed fetch
PollDispatch ==
    /\ wpc = "poll_dispatch"
    /\ \E outcome \in HookOutcomes(token, hook_up) :
        /\ tlog' = [tlog EXCEPT
                       ![Len(tlog)].fired = Append(@, tweets[ti]),
                       ![Len(tlog)].failed = IF outcome = "sent" THEN @
                                             ELSE Append(@, tweets[ti])]
        /\ IF HookRaises(outcome)
              THEN /\ wpc' = PollOnError(users, ui)
                   /\ ui' = ui + 1
                   /\ tweets' = <<>>
                   /\ ti' = 1
              ELSE /\ ti' = ti + 1
                   /\ wpc' = IF DispatchDone(ti, tweets) THEN "poll_advance"
                                                         ELSE "poll_dispatch"
                   /\ UNCHANGED <<ui, tweets>>
    /\ dispatched' = IF Upper(users[ui].username) = TrackedKey
                         /\ DictHas(watchlist, TrackedKey)
                      THEN dispatched \cup {<<users[ui].user_id, tweets[ti]>>}
                      ELSE dispatched
    /\ UNCHANGED <<watchlist, poll_interval, worker_running, last_poll_at, creds, lock, rst,
                   directory, token, hook_up, now, feed, users, newest,
                   first_run, delay, adds, reply>>

\* newest_id = str(tweets[-1].id); with _lock: ... since_id = newest_id
PollAdvance ==
    /\ wpc = "poll_advance"
    /\ lock = Free
    /\ lock' = AfterWith(WorkerThread)
    /\ watchlist' = AdvanceSinceId(watchlist, users[ui], tweets[Len(tweets)])
    /\ tlog' = [tlog EXCEPT ![Len(tlog)].adv =
                    IF DictHas(watchlist, Upper(users[ui].username))
                    THEN "set" ELSE "gone"]
    /\ tweets' = <<>>
    /\ ti' = 1
    /\ ui' = ui + 1
    /\ wpc' = PollNext(users, ui)
    /\ UNCHANGED <<poll_interval, worker_running, last_poll_at, creds, rst, dispatched, directory,
                   token, hook_up, now, feed, users, newest, first_run, delay, adds, reply>>

\* _last_poll_at = datetime.now(timezone.utc).isoformat()
\* (mutant: the seeding pass is inside the loop and runs after every tick)
AfterTick_Reseed == "seed_snap"

\* _poll_once returns to the `while` test of _worker_loop
AfterTick == "loop"

PollFinish ==
    /\ wpc = "poll_finish"
    /\ last_poll_at' = now
    /\ wpc' = AfterTick
    /\ users' = <<>>
    /\ ui' = 1
    /\ tlog' = <<>>
    /\ UNCHANGED <<watchlist, poll_interval, worker_running, creds, lock, rst, dispatched, directory,
                   token, hook_up, now, feed, tweets, ti, newest, first_run, delay, adds, reply>>

\* (mutant: no try/except around _poll_once, the worker thread dies)
OnPollError_ThreadDies == "stopped"

\* except Exception: log.error(...) and the loop goes on
OnPollError == "loop"

\* _poll_once raises after its loop (notify_tui_update cannot start its thread)
PollRaise ==
    /\ wpc = "poll_finish"
    /\ last_poll_at' = now
    /\ wpc' = OnPollError
    /\ users' = <<>>
    /\ ui' = 1
    /\ tlog' = <<>>
    /\ UNCHANGED <<watchlist, poll_interval, worker_running, creds, lock, rst, dispatched, directory,
                   token, hook_up, now, feed, tweets, ti, newest, first_run, delay, adds, reply>>

(*************************************************************************)
(* Request bodies.  A JSON field is missing, null, a string or a number; *)
(* for a string field that holds a handle, s is the handle; for one that *)
(* holds a decimal id or a timestamp, n is its value.                    *)
(*************************************************************************)
FMissing == [t |-> "missing", s |-> <<>>, n |-> 0]
FNull == [t |-> "null", s |-> <<>>, n |-> 0]
FStr(h) == [t |-> "str", s |-> h, n |-> 0]
FId(i) == [t |-> "str", s |-> <<>>, n |-> i]
FNum(i) == [t |-> "num", s |-> <<>>, n |-> i]

\* Python truth value of a field read with .get(name, "")
Truthy(f) ==
    CASE f.t = "str" -> f.s # <<>> \/ f.n # 0
      [] f.t = "num" -> f.n # 0
      [] OTHER -> FALSE

\* entry.get("since_id"), entry.get("user_id", ""): the id a field holds
IdOf(f) == IF f.t \in {"str", "num"} THEN f.n ELSE None

\* An element of an entries list: an object with the four fields, or a scalar.
Obj(username, user_id, since_id, added_at) ==
    [k |-> "obj", username |-> username, user_id |-> user_id,
     since_id |-> since_id, added_at |-> added_at]
Scalar == [k |-> "scalar", username |-> FMissing, user_id |-> FMissing,
           since_id |-> FMissing, added_at |-> FMissing]

\* The body of a restore request, as request.get_json(silent=True) gives it:
\* None (no JSON), a scalar, a list, or an object whose "data" field is
\* missing, null, a number, a string, an object or a list.  items is what
\* iterating the list / string / object yields.
Body(k, data, items) == [k |-> k, data |-> data, items |-> items]

(*************************************************************************)
(* rpc_twitter_watcher: add                                              *)
(*************************************************************************)
\* _resolve_user_id: get_user (case-insensitive) answers with the account's
\* id; an unknown handle or an exception gives None
ResolveOutcomes(username) ==
    {None} \cup (IF Upper(username) \in DirKeys
                 THEN {directory[Upper(username)]} ELSE {})

\* a key that keeps the casing of the handle
AddKey_CaseSensitive(username) == username

\* key = username.upper()
AddKey(username) == Upper(username)

\* username = (data.get("username") or "").strip().lstrip("@");
\* with _lock: if key in _watchlist: return success(already watching)
AddStart(s, f) ==
    /\ adds[s].pc = "idle"
    /\ UNCHANGED <<watchlist, poll_interval, worker_running, last_poll_at, creds, rst, dispatched, directory,
                   token, hook_up, now, feed, wpc, users, ui, tweets, ti, newest, first_run,
                   delay, tlog>>
    /\ IF Truthy(f) /\ f.t # "str"
       THEN \* a number has no .strip()
            /\ reply' = Reply("add", "fault", "AttributeError", 0)
            /\ UNCHANGED <<adds, lock>>
       ELSE LET username == NormalizeUsername(f.s)
                key == AddKey(username)
            IN  IF username = <<>>
                THEN /\ reply' = Reply("add", "err", "required", 0)
                     /\ UNCHANGED <<adds, lock>>
                ELSE IF DictHas(watchlist, key)
                THEN /\ lock = Free
                     /\ lock' = AfterWith(AddThread(s))
                     /\ reply' = Reply("add", "ok", "already", 0)
                     /\ UNCHANGED adds
                ELSE /\ lock = Free
                     /\ lock' = AfterWith(AddThread(s))
                     /\ adds' = [adds EXCEPT ![s] =
                                   [pc |-> "resolve", username |-> username,
                                    key |-> key, user_id |-> None,
                                    added_at |-> None]]
                     /\ UNCHANGED reply

\* client = _get_twitter_client(); user_id = _resolve_user_id(client, username);
\* watched = WatchedUser(username=username, user_id=user_id)
AddResolve(s) ==
    /\ adds[s].pc = "resolve"
    /\ UNCHANGED <<watchlist, poll_interval, worker_running, last_poll_at, creds, lock, rst, dispatched, directory,
                   token, hook_up, now, feed, wpc, users, ui, tweets, ti, newest, first_run,
                   delay, tlog>>
    /\ IF ~HasClient(creds)
       THEN /\ reply' = Reply("add", "err", "no_keys", 0)
            /\ adds' = [adds EXCEPT ![s] = IdleAdd]
       ELSE \E user_id \in ResolveOutcomes(adds[s].username) :
                IF user_id = None
                THEN /\ reply' = Reply("add", "err", "unresolved", 0)
                     /\ adds' = [adds EXCEPT ![s] = IdleAdd]
                ELSE /\ adds' = [adds EXCEPT ![s].pc = "insert",
                                             ![s].user_id = user_id,
                                             ![s].added_at = now]
                     /\ UNCHANGED reply

\* (mutant: the insert replaces the whole watchlist)
InsertWatched_Alone(d, key, watched) == <<watched>>

\* with _lock: _watchlist[key] = watched
InsertWatched(d, key, watched) == DictSet(d, key, watched)

AddInsert(s) ==
    /\ adds[s].pc = "insert"
    /\ lock = Free
    /\ lock' = AfterWith(AddThread(s))
    /\ watchlist' = InsertWatched(watchlist, adds[s].key,
                        WatchedUser(adds[s].key, adds[s].username, adds[s].user_id,
                                    None, adds[s].added_at))
    /\ dispatched' = IF adds[s].key = TrackedKey /\ ~DictHas(watchlist, TrackedKey)
                      THEN {} ELSE dispatched
    /\ reply' = Reply("add", "ok", "now_watching", adds[s].user_id)
    /\ adds' = [adds EXCEPT ![s] = IdleAdd]
    /\ UNCHANGED <<poll_interval, worker_running, last_poll_at, creds, rst, directory, token, hook_up, now,
                   feed, wpc, users, ui, tweets, ti, newest, first_run, delay,
                   tlog>>

(*************************************************************************)
(* rpc_twitter_watcher: remove, list                                     *)
(*************************************************************************)
\* a key that keeps the casing of the handle
RemoveKey_CaseSensitive(username) == username

\* key = username.upper()
RemoveKey(username) == Upper(username)

\* with _lock: existed = key in _watchlist; _watchlist.pop(key, None)
Remove(f) ==
    /\ UNCHANGED <<poll_interval, worker_running, last_poll_at, creds, rst, directory, token, hook_up, now,
                   feed, wpc, users, ui, tweets, ti, newest, first_run, delay,
                   tlog, adds>>
    /\ IF Truthy(f) /\ f.t # "str"
       THEN /\ reply' = Reply("remove", "fault", "AttributeError", 0)
            /\ UNCHANGED <<watchlist, lock, dispatched>>
       ELSE LET username == NormalizeUsername(f.s)
                key == RemoveKey(username)
            IN  IF username = <<>>
                THEN /\ reply' = Reply("remove", "err", "required", 0)
                     /\ UNCHANGED <<watchlist, lock, dispatched>>
                ELSE /\ lock = Free
                     /\ lock' = AfterWith(RequestThread("remove"))
                     /\ dispatched' = IF key = TrackedKey THEN {} ELSE dispatched
                     /\ reply' = Reply("remove", "ok",
                                       IF DictHas(watchlist, key)
                                       THEN "stopped" ELSE "was_not", 0)
                     /\ watchlist' = DictPop(watchlist, key)

\* with _lock: entries = [{...} for u in _watchlist.values()]
List ==
    /\ lock = Free
    /\ lock' = AfterWith(RequestThread("list"))
    /\ reply' = Reply("list", "ok", "", Len(watchlist))
    /\ UNCHANGED <<watchlist, poll_interval, worker_running, last_poll_at, creds, rst, dispatched, directory,
                   token, hook_up, now, feed, wpc, users, ui, tweets, ti, newest, first_run,
                   delay, tlog, adds>>

(*************************************************************************)
(* rpc_twitter_watcher: set_interval                                     *)
(*************************************************************************)
\* (mutant: only a non-positive interval is refused)
BelowMinimum_Positive(n) == n < 1

\* if interval < MIN_POLL_INTERVAL
BelowMinimum(n) == n < MIN_POLL_INTERVAL

\* int(interval) of a number is the number; of a string that is no
\* numeral it raises ValueError
SetInterval(f) ==
    /\ UNCHANGED <<watchlist, worker_running, last_poll_at, creds, lock, rst, dispatched, directory, token, hook_up, now,
                   feed, wpc, users, ui, tweets, ti, newest, first_run, delay,
                   tlog, adds>>
    /\ IF f.t \in {"missing", "null"}
       THEN /\ reply' = Reply("set_interval", "err", "required", 0)
            /\ UNCHANGED poll_interval
       ELSE IF f.t = "str" /\ f.s # <<>>
       THEN /\ reply' = Reply("set_interval", "err", "not_integer", 0)
            /\ UNCHANGED poll_interval
       ELSE IF BelowMinimum(f.n)
       THEN /\ reply' = Reply("set_interval", "err", "below_minimum", f.n)
            /\ UNCHANGED poll_interval
       ELSE /\ poll_interval' = f.n
            /\ reply' = Reply("set_interval", "ok", "", f.n)

(*************************************************************************)
(* backup_export                                                         *)
(*************************************************************************)
\* a since_id / added_at as JSON: None is null
JsonOpt(v) == IF v = None THEN FNull ELSE FId(v)

\* {"username": u.username, "user_id": u.user_id, "since_id": u.since_id,
\*  "added_at": u.added_at}
ExportEntry(u) ==
    Obj(FStr(u.username), FId(u.user_id), JsonOpt(u.since_id), JsonOpt(u.added_at))

ExportEntries(d) == [i \in 1..Len(d) |-> ExportEntry(d[i])]

BackupExport ==
    /\ lock = Free
    /\ lock' = AfterWith(RequestThread("export"))
    /\ reply' = Reply("export", "ok", "", Len(ExportEntries(watchlist)))
    /\ UNCHANGED <<watchlist, poll_interval, worker_running, last_poll_at, creds, rst, dispatched, directory,
                   token, hook_up, now, feed, wpc, users, ui, tweets, ti, newest, first_run,
                   delay, tlog, adds>>

\* (mutant: restore strips the username for the key as add does)
RestoreKey_Stripped(username) == Upper(NormalizeUsername(username))

\* key = username.upper()
RestoreKey(username) == Upper(username)

(*************************************************************************)
(* backup_restore                                                        *)
(*************************************************************************)
\* a load that does not read the entry's since_id
RestoredUser_NoSinceId(e, t) ==
    WatchedUser(RestoreKey(e.username.s), e.username.s, IdOf(e.user_id), None,
                IF e.added_at.t = "missing" THEN t ELSE IdOf(e.added_at))

\* WatchedUser(username=username, user_id=user_id,
\*             since_id=entry.get("since_id"),
\*             added_at=entry.get("added_at", datetime.now(...)))
RestoredUser(e, t) ==
    WatchedUser(RestoreKey(e.username.s), e.username.s, IdOf(e.user_id),
                IdOf(e.since_id),
                IF e.added_at.t = "missing" THEN t ELSE IdOf(e.added_at))

\* for entry in entries: ...   (d is the dict so far; an exception leaves it)
RECURSIVE RestoreLoop(_, _, _)
RestoreLoop(d, items, t) ==
    IF items = <<>> THEN [wl |-> d, fault |-> FALSE]
    ELSE LET e == Head(items)
         IN  IF e.k # "obj"
             THEN [wl |-> d, fault |-> TRUE]        \* no .get on a scalar
             ELSE IF Truthy(e.username) /\ Truthy(e.user_id)
             THEN IF e.username.t # "str"
                  THEN [wl |-> d, fault |-> TRUE]   \* no .upper() on a number
                  ELSE RestoreLoop(DictSet(d, RestoreKey(e.username.s), RestoredUser(e, t)),
                                   Tail(items), t)
             ELSE RestoreLoop(d, Tail(items), t)

\* what the watchlist is cleared to before the load
Cleared(d) == <<>>

\* The whole handler: the watchlist it leaves, and what it returns.
RestoreResult(d, body, t) ==
    IF body.k = "none"
    THEN [wl |-> d, st |-> "err", msg |-> "invalid_json", n |-> 0]
    ELSE IF body.k = "scalar"
    THEN \* data.get on a scalar
         [wl |-> d, st |-> "fault", msg |-> "AttributeError", n |-> 0]
    ELSE IF body.k = "dict" /\ body.data \in {"null", "num"}
    THEN \* `for entry in entries` on None or a number, after the clear
         [wl |-> Cleared(d), st |-> "fault", msg |-> "TypeError", n |-> 0]
    ELSE LET entries == IF body.k = "dict" /\ body.data = "missing"
                        THEN <<>> ELSE body.items
             r == RestoreLoop(Cleared(d), entries, t)
         IN  IF r.fault
             THEN [wl |-> r.wl, st |-> "fault", msg |-> "AttributeError", n |-> 0]
             ELSE [wl |-> r.wl, st |-> "ok", msg |-> "restored", n |-> Len(entries)]

\* the bodies with which the handler gets as far as its `with _lock:`
TakesLock(body) == body.k \notin {"none", "scalar"}

BackupRestore(body) ==
    /\ IF TakesLock(body)
       THEN /\ lock = Free
            /\ lock' = AfterWith(RequestThread("restore"))
            /\ dispatched' = {}
       ELSE UNCHANGED <<lock, dispatched>>
    /\ LET r == RestoreResult(watchlist, body, now)
       IN  /\ watchlist' = r.wl
           /\ reply' = Reply("restore", r.st, r.msg, r.n)
    /\ UNCHANGED <<poll_interval, worker_running, last_poll_at, creds, rst, directory, token, hook_up, now,
                   feed, wpc, users, ui, tweets, ti, newest, first_run, delay,
                   tlog, adds>>

(*************************************************************************)
(* backup_restore, statement by statement: the block `with _lock:` is    *)
(* entered and the watchlist cleared, the entries are loaded one at a    *)
(* time, the block is left.                                              *)
(*************************************************************************)
\* entries = data if isinstance(data, list) else data.get("data", [])
EntriesOf(body) ==
    IF body.k = "dict" /\ body.data = "missing" THEN <<>> ELSE body.items

\* with _lock: _watchlist.clear()
RestoreBegin(body) ==
    /\ rst.pc = "idle"
    /\ TakesLock(body)
    /\ lock = Free
    /\ lock' = Acquired(RequestThread("restore"))
    /\ watchlist' = Cleared(watchlist)
    /\ rst' = [pc |-> "loading", entries |-> EntriesOf(body),
               iter |-> ~(body.k = "dict" /\ body.data \in {"null", "num"}),
               i |-> 1, before |-> watchlist]
    /\ dispatched' = {}
    /\ UNCHANGED <<poll_interval, worker_running, last_poll_at, creds, directory, token, hook_up,
                   now, feed, wpc, users, ui, tweets, ti, newest, first_run, delay,
                   tlog, adds, reply>>

\* for entry in entries: ... _watchlist[key] = WatchedUser(...)
\* (an exception leaves the block and the handler)
RestoreLoad ==
    /\ rst.pc = "loading"
    /\ rst.iter => rst.i <= Len(rst.entries)
    /\ LET r == IF rst.iter
                THEN RestoreLoop(watchlist, <<rst.entries[rst.i]>>, now)
                ELSE [wl |-> watchlist, fault |-> TRUE]
       IN  /\ watchlist' = r.wl
           /\ IF r.fault
              THEN /\ reply' = Reply("restore", "fault",
                                     IF rst.iter THEN "AttributeError" ELSE "TypeError", 0)
                   /\ rst' = IdleRestore
                   /\ lock' = AfterWith(RequestThread("restore"))
              ELSE /\ rst' = [rst EXCEPT !.i = @ + 1]
                   /\ UNCHANGED <<reply, lock>>
    /\ UNCHANGED <<poll_interval, worker_running, last_poll_at, creds, dispatched,
                   directory, token, hook_up, now, feed, wpc, users, ui, tweets, ti, newest,
                   first_run, delay, tlog, adds>>

\* the block is left; return success({"restored": len(entries)})
RestoreEnd ==
    /\ rst.pc = "loading"
    /\ rst.iter
    /\ rst.i > Len(rst.entries)
    /\ lock' = AfterWith(RequestThread("restore"))
    /\ reply' = Reply("restore", "ok", "restored", Len(rst.entries))
    /\ rst' = IdleRestore
    /\ UNCHANGED <<watchlist, poll_interval, worker_running, last_poll_at, creds,
                   dispatched, directory, token, hook_up, now, feed, wpc, users, ui, tweets,
                   ti, newest, first_run, delay, tlog, adds>>

(*************************************************************************)
(* The threads.                                                          *)
(*************************************************************************)
Worker ==
    \/ WorkerStart
    \/ WorkerLoopTop
    \/ WorkerWake
    \/ SeedSnapshot
    \/ SeedFetchFail
    \/ SeedFetch
    \/ SeedAdvance
    \/ PollSnapshot
    \/ PollFetchFail
    \/ PollFetch
    \/ PollDispatch
    \/ PollAdvance
    \/ PollFinish
    \/ PollRaise

\* add requests with the username fields `inputs`, on the threads `slots`
Adds(slots, inputs) ==
    \/ \E s \in slots, f \in inputs : AddStart(s, f)
    \/ \E s \in slots : AddResolve(s)
    \/ \E s \in slots : AddInsert(s)

(*************************************************************************)
(* Spec: the worker with credentials, one request thread that adds and   *)
(* removes two accounts, restores of a backup, and the accounts posting. *)
(*************************************************************************)
\* a backup whose watermark is ahead of what this process has fetched
BackupAhead == Obj(FStr(HandleLower), FId(1), FId(MaxItem), FId(1))

InitPoller == Init /\ creds /\ token

PlainHandles == {FStr(HandleLower), FStr(HandleOther)}

Next ==
    \/ Worker
    \/ \E u \in UserIds : Post(u)
    \/ Adds({1}, PlainHandles)
    \/ \E f \in PlainHandles : Remove(f)
    \/ BackupRestore(Body("list", "list", <<BackupAhead>>))

Spec == InitPoller /\ [][Next]_vars

(*************************************************************************)
(* SpecRace: two request threads add the same account under either       *)
(* casing while the worker runs, the account posts, is removed, and its  *)
(* handle passes to another account.                                     *)
(*************************************************************************)
CaseHandles == {FStr(HandleLower), FStr(HandleUpper)}

NextRace ==
    \/ Worker
    \/ Post(1)
    \/ Adds(Slots, CaseHandles)
    \/ Remove(FStr(HandleUpper))
    \/ \E u \in UserIds : Rename(Upper(HandleLower), u)

SpecRace == InitPoller /\ [][NextRace]_vars

(*************************************************************************)
(* Request payloads.                                                     *)
(*************************************************************************)
\* username fields of add / remove requests: either casing, another
\* account, a leading @, surrounding blanks, no field, a number
UsernameInputs ==
    {FStr(HandleLower), FStr(HandleUpper), FStr(HandleOther), FStr(HandleAt),
     FStr(<<" ", "a", " ">>), FStr(<<"@">>), FMissing, FNum(7)}

\* interval fields of set_interval requests
IntervalInputs ==
    {FMissing, FNull, FStr(HandleLower), FNum(5), FNum(MIN_POLL_INTERVAL - 1),
     FNum(MIN_POLL_INTERVAL), FId(MIN_POLL_INTERVAL + 1)}

\* entries of restore payloads
EntryLower == Obj(FStr(HandleLower), FId(1), FId(1), FMissing)
EntryUpper == Obj(FStr(HandleUpper), FId(MaxUser), FNull, FId(1))
EntryOther == Obj(FStr(HandleOther), FId(MaxUser), FMissing, FNull)
EntryAt == Obj(FStr(HandleAt), FId(1), FNull, FId(MaxClock))
EntryNoId == Obj(FStr(HandleOther), FMissing, FNull, FId(1))
EntryNumName == Obj(FNum(7), FId(1), FNull, FId(1))

\* payloads that are a list of entry objects, bare or in a {data: ...} envelope
EntryBodies ==
    {Body("list", "list", <<EntryLower, EntryOther>>),
     Body("list", "list", <<EntryLower, EntryUpper>>),
     Body("dict", "list", <<EntryAt, EntryNoId>>),
     Body("dict", "list", <<EntryOther, EntryNumName>>)}

\* payloads that are no list of entry objects: no JSON, a scalar, an object
\* without "data", "data" null / a number / a string / an object, and a list
\* with an element that is no object
InvalidBodies ==
    {Body("none", "missing", <<>>),
     Body("scalar", "missing", <<>>),
     Body("dict", "missing", <<>>),
     Body("dict", "null", <<>>),
     Body("dict", "num", <<>>),
     Body("dict", "str", <<Scalar>>),
     Body("dict", "dict", <<Scalar>>),
     Body("list", "list", <<EntryOther, Scalar>>)}

\* the two shapes backup_restore reads entries from
Envelopes == {"list", "dict"}

\* the output of backup_export, sent back bare or as the {data: ...} envelope
ExportBody(k, d) == Body(k, "list", ExportEntries(d))

(*************************************************************************)
(* SpecBackup: the worker with credentials beside one request thread     *)
(* that adds and removes an account under either casing, restores a      *)
(* backup of two other entries, and restores what export returns, while  *)
(* the account posts.                                                    *)
(*************************************************************************)
NextBackup ==
    \/ Worker
    \/ Post(1)
    \/ Adds({1}, CaseHandles)
    \/ \E f \in CaseHandles : Remove(f)
    \/ BackupRestore(Body("dict", "list", <<EntryAt, EntryOther>>))
    \/ \E k \in Envelopes : BackupRestore(ExportBody(k, watchlist))

SpecBackup == InitPoller /\ [][NextBackup]_vars

(*************************************************************************)
(* SpecLock: backup_restore taken statement by statement beside the      *)
(* worker and the threads of add, remove, list and export requests.      *)
(*************************************************************************)
LockBodies ==
    {Body("list", "list", <<EntryAt, EntryOther>>),
     Body("dict", "list", <<EntryOther, Scalar>>),
     Body("dict", "null", <<>>)}

NextLock ==
    \/ Worker
    \/ Post(1)
    \/ Adds({1}, {FStr(HandleLower)})
    \/ Remove(FStr(HandleLower))
    \/ List
    \/ BackupExport
    \/ \E body \in LockBodies : RestoreBegin(body)
    \/ RestoreLoad
    \/ RestoreEnd

SpecLock == InitPoller /\ [][NextLock]_vars

(*************************************************************************)
(* SpecBurst: the worker and one watched account that posts single       *)
(* tweets and bursts of more tweets than one fetch returns.              *)
(*************************************************************************)
NextBurst ==
    \/ Worker
    \/ Post(1)
    \/ Burst(1)
    \/ Adds({1}, {FStr(HandleLower)})

SpecBurst == InitPoller /\ [][NextBurst]_vars

(*************************************************************************)
(* SpecStop: the worker, scheduled fairly, beside adds, posts and the    *)
(* setting of the stop flag.                                             *)
(*************************************************************************)
NextStop ==
    \/ Worker
    \/ Stop
    \/ Post(1)
    \/ Adds({1}, {FStr(HandleLower)})

SpecStop == InitPoller /\ [][NextStop]_vars /\ WF_vars(Worker)

(*************************************************************************)
(* SpecKeys: the service started with and without the Twitter keys: the  *)
(* worker, the accounts posting, and add, remove, list, export and restore *)
(* requests.                                                             *)
(*************************************************************************)
InitKeys == Init /\ token

NextKeys ==
    \/ Worker
    \/ \E u \in UserIds : Post(u)
    \/ Adds({1}, {FStr(HandleLower)})
    \/ Remove(FStr(HandleLower))
    \/ List
    \/ BackupExport
    \/ BackupRestore(Body("list", "list", <<EntryUpper, EntryLower>>))
    \/ BackupRestore(Body("list", "list", <<EntryOther>>))

SpecKeys == InitKeys /\ [][NextKeys]_vars

\* the poller beside a backend that goes down and comes back, with or without
\* STARKBOT_INTERNAL_TOKEN
InitHook == Init /\ creds

NextHook ==
    \/ Worker
    \/ \E u \in UserIds : Post(u)
    \/ BackendFlip
    \/ Adds({1}, PlainHandles)

SpecHook == InitHook /\ [][NextHook]_vars

\* the poller started beside adds and the restore of a backup whose entry
\* already has a watermark
EntrySeeded == Obj(FStr(HandleAt), FId(1), FId(1), FId(1))

NextSeed ==
    \/ Worker
    \/ \E u \in UserIds : Post(u)
    \/ Adds({1}, PlainHandles)
    \/ BackupRestore(Body("list", "list", <<EntrySeeded>>))

SpecSeed == InitPoller /\ [][NextSeed]_vars

\* the poller beside set_interval requests
NextWait ==
    \/ Worker
    \/ Post(1)
    \/ Adds({1}, {FStr(HandleLower)})
    \/ \E f \in IntervalInputs : SetInterval(f)

SpecWait == InitPoller /\ [][NextWait]_vars

\* the poller scheduled fairly, with two users to watch
NextLive ==
    \/ Worker
    \/ Stop
    \/ \E u \in UserIds : Post(u)
    \/ Adds({1}, PlainHandles)

SpecLive == InitPoller /\ [][NextLive]_vars /\ WF_vars(Worker)

(*************************************************************************)
(* SpecCtl: the request handlers with every request shape, with and      *)
(* without credentials, while the worker thread takes no step; the       *)
(* clock advances.                                                       *)
(*************************************************************************)
InitCtl == Init /\ token

NextCtl ==
    \/ Tick
    \/ Adds({1}, UsernameInputs)
    \/ \E f \in UsernameInputs : Remove(f)
    \/ List
    \/ \E f \in IntervalInputs : SetInterval(f)
    \/ BackupExport
    \/ \E body \in EntryBodies \cup InvalidBodies : BackupRestore(body)
    \/ \E k \in Envelopes : BackupRestore(ExportBody(k, watchlist))

SpecCtl == InitCtl /\ [][NextCtl]_vars

(*************************************************************************)
(* Properties of the poll tick.                                          *)
(*************************************************************************)
PollPhases == {"poll_fetch", "poll_dispatch", "poll_advance", "poll_finish"}

StrictlyAscending(q) == \A i \in 1..(Len(q) - 1) : q[i] < q[i + 1]

\* the worker takes the step that leaves the watermark write of a tick / of the seeding
PollAdvanceStep == wpc = "poll_advance" /\ wpc' # "poll_advance"
SeedAdvanceStep == wpc = "seed_advance" /\ wpc' # "seed_advance"

\* C1: a tick that fetches an account whose watermark is absent hands none
\* of the returned tweets to the hook (and leaves the watermark at the
\* newest returned id).
C1_BacklogSuppressed ==
    \A i \in 1..Len(tlog) :
        tlog[i].user.since_id = None => tlog[i].fired = <<>>

\* C2: within a tick the tweets of an account are handed to the hook one
\* each, in strictly ascending id order, whatever order the feed returned
\* them in, and the watermark write stores the largest returned id when the
\* key is still in the watchlist.
C2_FiredAscending ==
    \A i \in 1..Len(tlog) :
        LET e == tlog[i]
        IN  e.res = "items" =>
                /\ StrictlyAscending(e.fired)
                /\ Range(e.fired) \subseteq e.got
                /\ \A x \in Range(e.fired), y \in e.got \ Range(e.fired) : x < y
                /\ e.adv # "none" =>
                       /\ Range(e.fired) = e.got
                       /\ Len(e.fired) = Cardinality(e.got)

C2_WatermarkIsMax ==
    PollAdvanceStep =>
        LET key == Upper(users[ui].username)
        IN  DictHas(watchlist', key) =>
                DictGet(watchlist', key).since_id = SetMax(tlog[Len(tlog)].got)

\* C2: in every tick the tweets of an account reach the hook in strictly
\* ascending id order, and the watermark write stores the largest id.
C2_Ordering == [](C2_FiredAscending) /\ [][C2_WatermarkIsMax]_vars

C2_Witness ==
    \E i \in 1..Len(tlog) :
        /\ tlog[i].res = "items"
        /\ Cardinality(tlog[i].got) >= 2
        /\ tlog[i].adv = "set"
        /\ Len(tlog[i].fired) = Cardinality(tlog[i].got)
        /\ DictHas(watchlist, Upper(tlog[i].user.username))
        /\ DictGet(watchlist, Upper(tlog[i].user.username)).since_id
               = SetMax(tlog[i].got)

\* a step lowers no watermark: every key kept by the step that had a
\* watermark has one at least as large afterwards
NoWatermarkLowered ==
    \A i \in 1..Len(watchlist), j \in 1..Len(watchlist') :
        (watchlist[i].key = watchlist'[j].key
           /\ watchlist[i].since_id # None /\ watchlist'[j].since_id # None)
        => watchlist'[j].since_id >= watchlist[i].since_id

\* C3: only a restore lowers a stored watermark; the watermark write of
\* the seeding pass and of a poll tick never does.
C3_WatermarkMonotone ==
    [][(PollAdvanceStep \/ SeedAdvanceStep) => NoWatermarkLowered]_vars

\* C4: a fetch failure of one account neither ends the tick nor touches
\* the watchlist: the tick is left only through its end, with every user
\* of the snapshot attempted; every user whose fetch returned tweets has
\* had all of them handed to the hook and its watermark write made, on
\* either side of a failed user; and a watermark write changes no entry
\* but the current user's.
C4_TickAttemptsAll ==
    /\ wpc \notin PollPhases => tlog = <<>>
    /\ wpc = "poll_finish" =>
           /\ Len(tlog) = Len(users)
           /\ \A a, b \in 1..Len(tlog) :
                  (tlog[a].res = "fail" /\ tlog[b].res = "items") =>
                      /\ tlog[b].user = users[b]
                      /\ Range(tlog[b].fired) = tlog[b].got
                      /\ tlog[b].adv \in {"set", "gone"}
                      /\ tlog[a].fired = <<>> /\ tlog[a].adv = "none"

C4_FailureTouchesNothing ==
    /\ (wpc = "poll_fetch" /\ Len(tlog') = Len(tlog) + 1
          /\ tlog'[Len(tlog')].res = "fail")
       => watchlist' = watchlist
    /\ PollAdvanceStep =>
           /\ Len(watchlist') = Len(watchlist)
           /\ \A i \in 1..Len(watchlist) :
                  watchlist[i].key # Upper(users[ui].username)
                      => watchlist'[i] = watchlist[i]
           /\ DictHas(watchlist, Upper(users[ui].username)) =>
                  DictGet(watchlist', Upper(users[ui].username)).since_id
                      = SetMax(tlog[Len(tlog)].got)

\* C4: a failed fetch of one account leaves the tick running over every
\* other account of the snapshot and changes no entry of the watchlist.
C4_Isolation == [](C4_TickAttemptsAll) /\ [][C4_FailureTouchesNothing]_vars

C4_Witness ==
    /\ wpc = "poll_finish"
    /\ Len(tlog) = 2
    /\ tlog[1].res = "fail"
    /\ tlog[2].res = "items"
    /\ tlog[2].adv = "set"
    /\ DictHas(watchlist, Upper(tlog[1].user.username))
    /\ DictGet(watchlist, Upper(tlog[1].user.username)).since_id
           = tlog[1].user.since_id
    /\ DictHas(watchlist, Upper(tlog[2].user.username))
    /\ DictGet(watchlist, Upper(tlog[2].user.username)).since_id
           = SetMax(tlog[2].got)

\* C7: when the current user's key is no longer in the watchlist, the
\* watermark write of a poll tick or of the seeding pass changes nothing
\* (the key is not put back) and the pass goes on with the next user.
C7_WriteSkipsRemoved ==
    ((PollAdvanceStep \/ SeedAdvanceStep)
        /\ ~DictHas(watchlist, Upper(users[ui].username)))
    => /\ watchlist' = watchlist
       /\ wpc' = IF wpc = "poll_advance"
                 THEN PollNext(users, ui) ELSE SeedNext(users, ui)

\* C7: a watermark write for a key that was removed meanwhile is a no-op
\* and the pass goes on.
C7_RemovedNotResurrected == [][C7_WriteSkipsRemoved]_vars

C7_Witness ==
    /\ wpc = "poll_fetch"
    /\ Len(users) = 2
    /\ Len(tlog) = 1
    /\ tlog[1].adv = "gone"
    /\ ~DictHas(watchlist, Upper(tlog[1].user.username))

(*************************************************************************)
(* Properties of add under concurrency.                                  *)
(*************************************************************************)
\* thread s takes the step that stores its WatchedUser
AddInsertStep(s) == adds[s].pc = "insert" /\ adds'[s].pc = "idle"

\* C6: an add whose key is in the watchlist at the moment it stores its
\* entry leaves the watchlist as it is (no entry replaced, no watermark
\* set back to absent).
C6_InsertKeepsExisting ==
    [][\A s \in Slots :
          (AddInsertStep(s) /\ DictHas(watchlist, adds[s].key))
              => watchlist' = watchlist]_vars

(*************************************************************************)
(* Properties of add and remove.                                         *)
(*************************************************************************)
\* the watchlist holds an entry for the handle h, under any casing
Watched(d, h) == \E i \in 1..Len(d) : Upper(d[i].username) = Upper(h)

\* C5: an add of a handle that is already watched under any casing answers
\* "already watching" as a success, goes on to no resolution, and leaves
\* the watchlist as it is, with one entry for that handle.
C5_AddOfWatched ==
    \A s \in Slots, f \in CaseHandles :
        (AddStart(s, f) /\ Watched(watchlist, NormalizeUsername(f.s)))
        => /\ reply' = Reply("add", "ok", "already", 0)
           /\ adds'[s] = IdleAdd
           /\ watchlist' = watchlist
           /\ Cardinality({i \in 1..Len(watchlist') :
                  Upper(watchlist'[i].username) = Upper(NormalizeUsername(f.s))}) = 1

\* C5: every add of an already watched handle, under any casing, is a
\* success that resolves nothing and leaves the watchlist unchanged.
C5_AddIdempotent == [][C5_AddOfWatched]_vars

C5_Witness ==
    /\ reply = Reply("add", "ok", "already", 0)
    /\ \E i \in 1..Len(watchlist) :
           /\ watchlist[i].key = Upper(HandleLower)
           /\ watchlist[i].username = HandleUpper
           /\ watchlist[i].since_id # None
    /\ adds[1] = IdleAdd

\* C8: remove of a handle deletes the entry whose key is the uppercased
\* handle, whatever casing it was added under, keeps every other entry
\* as it is and in place, and answers "stopped" exactly when the key was
\* there; when it was not, the watchlist is unchanged.
C8_RemoveStep ==
    \A f \in CaseHandles :
        Remove(f) =>
            LET key == Upper(NormalizeUsername(f.s))
                present == \E i \in 1..Len(watchlist) : watchlist[i].key = key
            IN  /\ reply' = Reply("remove", "ok",
                                  IF present THEN "stopped" ELSE "was_not", 0)
                /\ watchlist' = SelectSeq(watchlist, LAMBDA u : u.key # key)
                /\ ~present => watchlist' = watchlist

\* C8: every remove deletes exactly the entry of the uppercased handle,
\* reports whether it was there, and is a no-op when it was not.
C8_RemoveCaseInsensitive == [][C8_RemoveStep]_vars

C8_Witness ==
    /\ reply = Reply("remove", "ok", "stopped", 0)
    /\ Len(watchlist) = 2
    /\ ~Watched(watchlist, HandleLower)

(*************************************************************************)
(* Properties of backup.                                                 *)
(*************************************************************************)
\* C9: a restore of what export returns for the watchlist, bare or in the
\* {data: ...} envelope, succeeds and leaves the watchlist as it was:
\* the same keys in the same order, each with the same username, user_id,
\* since_id and added_at.
C9_RestoreOfExport ==
    \A k \in Envelopes :
        BackupRestore(ExportBody(k, watchlist))
        => /\ watchlist' = watchlist
           /\ reply'.st = "ok"

\* C9: every restore of the output of export reproduces the watchlist.
C9_RoundTrip == [][C9_RestoreOfExport]_vars

C9_Witness ==
    /\ reply = Reply("restore", "ok", "restored", 3)
    /\ Len(watchlist) = 3
    /\ \E i, j \in 1..Len(watchlist) :
           /\ watchlist[i].username = HandleUpper
           /\ watchlist[i].since_id # None
           /\ watchlist[j].since_id = None
           /\ watchlist[j].added_at = None

\* C10: a restore whose payload is no list of entry objects leaves the
\* watchlist as it was.
C10_InvalidRestoreKeepsWatchlist ==
    [][\A body \in InvalidBodies :
          BackupRestore(body) => watchlist' = watchlist]_vars

(*************************************************************************)
(* Properties of the lock.                                               *)
(*************************************************************************)
\* a thread reads the watchlist as a whole: the worker's seed / poll
\* snapshot, a list or an export
SnapshotStep ==
    \/ wpc \in {"seed_snap", "poll_snap"} /\ wpc' # wpc
    \/ reply' # reply /\ reply'.op \in {"list", "export"}

\* a step of the restore thread
RestoreStep == rst' # rst

\* while a restore is inside its block no other thread reads or writes
\* the watchlist
C11_NoTornRead ==
    rst.pc = "loading" =>
        /\ ~SnapshotStep
        /\ ~RestoreStep => watchlist' = watchlist

\* a restore that succeeds leaves what the one-step replacement of the
\* watchlist it found gives: entries of the payload only, one for every
\* payload entry that has a username and a user_id
C11_ReplacesWhole ==
    (rst.pc = "loading" /\ rst'.pc = "idle" /\ reply'.st = "ok") =>
        /\ watchlist' = RestoreResult(rst.before,
                            Body("list", "list", rst.entries), now).wl
        /\ \A i \in 1..Len(watchlist') :
               \E j \in 1..Len(rst.entries) :
                   watchlist'[i] = RestoredUser(rst.entries[j], now)
        /\ \A j \in 1..Len(rst.entries) :
               (Truthy(rst.entries[j].username) /\ Truthy(rst.entries[j].user_id))
                   => DictHas(watchlist', Upper(rst.entries[j].username.s))

\* C11: a snapshot, list or export never sees the watchlist of a restore
\* that is under way, no add, remove or watermark write lands inside it,
\* and a successful restore leaves exactly the payload's entries.
C11_AtomicReplace == [][C11_NoTornRead /\ C11_ReplacesWhole]_vars

C11_Witness ==
    /\ rst.pc = "loading"
    /\ rst.i = 2
    /\ rst.before # <<>>
    /\ Len(watchlist) = 1
    /\ watchlist[1].key # rst.before[1].key
    /\ wpc = "poll_snap"
    /\ adds[1].pc = "insert"

(*************************************************************************)
(* Properties of set_interval.                                           *)
(*************************************************************************)
\* the interval field is a number or a numeral string
IsInteger(f) == f.t = "num" \/ (f.t = "str" /\ f.s = <<>>)

C12_SetIntervalStep ==
    \A f \in IntervalInputs :
        (SetInterval(f) /\ IsInteger(f)) =>
            IF f.n < MIN_POLL_INTERVAL
            THEN /\ reply' = Reply("set_interval", "err", "below_minimum", f.n)
                 /\ poll_interval' = poll_interval
            ELSE /\ reply'.st = "ok"
                 /\ poll_interval' = f.n

\* C12: set_interval below MIN_POLL_INTERVAL is refused and leaves
\* _poll_interval as it is, at or above it is stored; _poll_interval
\* starts at DEFAULT_POLL_INTERVAL and is never below MIN_POLL_INTERVAL.
C12_IntervalFloor ==
    /\ poll_interval = DEFAULT_POLL_INTERVAL
    /\ [](poll_interval >= MIN_POLL_INTERVAL)
    /\ [][C12_SetIntervalStep]_vars

C12_Witness ==
    /\ reply = Reply("set_interval", "err", "below_minimum", MIN_POLL_INTERVAL - 1)
    /\ poll_interval = MIN_POLL_INTERVAL + 1

(*************************************************************************)
(* Properties of the responses.                                          *)
(*************************************************************************)
\* C13: every request ends in a success or an error response, never in
\* an exception that escapes the handler.
C13_NoUnhandledFault == reply.st # "fault"

(*************************************************************************)
(* Properties of dispatch.                                               *)
(*************************************************************************)
\* the worker hands the next tweet of the current user to _fire_hook
PollDispatchStep == wpc = "poll_dispatch" /\ ti' = ti + 1

\* C14: while a key stays in the watchlist and no restore occurs, no
\* tweet is handed to _fire_hook for that key a second time.
C14_NoDoubleDispatch ==
    [][(PollDispatchStep /\ Upper(users[ui].username) = TrackedKey
          /\ DictHas(watchlist, TrackedKey))
       => <<users[ui].user_id, tweets[ti]>> \notin dispatched]_vars

\* C15: the watermark write of a tick moves an established watermark
\* over no tweet that the tick has not handed to _fire_hook (a tweet it
\* passes is returned by no later fetch, so it is never dispatched).
C15_NoTweetPassedOver ==
    [][(PollAdvanceStep /\ users[ui].since_id # None)
       => \A id \in (users[ui].since_id + 1)..tweets[Len(tweets)] :
              id \in Range(tlog[Len(tlog)].fired)]_vars

\* the watermark write of a tick comes after the hook calls for every
\* tweet of the fetch up to the value written
C16_AdvanceAfterDispatch ==
    PollAdvanceStep =>
        LET w == tweets[Len(tweets)]
            e == tlog[Len(tlog)]
        IN  /\ \A id \in e.got : id <= w => id \in Range(e.fired)
            /\ DictHas(watchlist, Upper(users[ui].username)) =>
                   DictGet(watchlist', Upper(users[ui].username)).since_id = w

\* the fetch and the hook calls of a tick write no watermark
C16_NoWriteWhileDispatching ==
    ((wpc = "poll_fetch" /\ tlog' # tlog) \/ PollDispatchStep)
        => watchlist' = watchlist

\* C16: in a tick the watermark of an account is written only after every
\* tweet of the fetch up to it has been handed to _fire_hook, and not
\* between the hook calls.
C16_DispatchBeforeAdvance ==
    [][C16_AdvanceAfterDispatch /\ C16_NoWriteWhileDispatching]_vars

C16_Witness ==
    /\ wpc = "poll_finish"
    /\ tlog # <<>>
    /\ LET e == tlog[Len(tlog)]
       IN  /\ e.adv = "set"
           /\ Len(e.fired) >= 2
           /\ DictHas(watchlist, Upper(e.user.username))
           /\ DictGet(watchlist, Upper(e.user.username)).since_id
                  = e.fired[Len(e.fired)]

\* where the worker is at or inside get_users_tweets / _fire_hook
NetworkPcs == {"seed_fetch", "poll_fetch", "poll_dispatch"}

\* C17: the thread that holds _lock is not at a get_users_tweets, a
\* _fire_hook or a _resolve_user_id call; the threads of remove, list,
\* export and restore make no such call at all.
C17_NoNetworkUnderLock ==
    /\ lock = WorkerThread => wpc \notin NetworkPcs
    /\ \A s \in Slots : lock = AddThread(s) => adds[s].pc # "resolve"
    /\ lock.who \in {"free", "worker", "add", "remove", "list", "export", "restore"}

C17_Witness ==
    /\ lock = RequestThread("restore")
    /\ wpc = "poll_dispatch"
    /\ adds[1].pc = "resolve"

(*************************************************************************)
(* Properties of the worker loop.                                        *)
(*************************************************************************)
\* with the flag set, the end of a sleep starts no tick and the loop
\* starts no sleep
C18_NoNewTick ==
    ~worker_running =>
        /\ wpc = "sleep" => wpc' \in {"sleep", "stopped"}
        /\ wpc = "loop" => wpc' \in {"loop", "stopped"}

\* with the flag set, a tick under way is left only through its end,
\* every user of the snapshot attempted
C18_TickRunsOut ==
    (~worker_running /\ wpc \in PollPhases) =>
        /\ wpc' \in PollPhases \cup {"loop"}
        /\ wpc' = "loop" => (wpc = "poll_finish" /\ Len(tlog) = Len(users))

\* C18: once _worker_running is False the worker starts no tick when its
\* sleep ends, finishes the tick it is in, and stops.
C18_CooperativeShutdown ==
    /\ [][C18_NoNewTick /\ C18_TickRunsOut]_vars
    /\ (~worker_running ~> wpc = "stopped")

C18_Witness ==
    /\ ~worker_running
    /\ wpc = "poll_finish"
    /\ Len(tlog) = Len(users)
    /\ \E i \in 1..Len(tlog) : tlog[i].res = "items" /\ tlog[i].adv = "set"

(*************************************************************************)
(* Properties of the service without the Twitter keys.                   *)
(*************************************************************************)
\* a step of the worker thread
WorkerStep ==
    wpc' # wpc \/ users' # users \/ ui' # ui \/ tweets' # tweets \/ tlog' # tlog

\* without the keys the worker is at its start or has returned: no
\* snapshot, no fetch, no hook call
C19_WorkerNeverRuns ==
    ~creds =>
        /\ wpc \in {"start", "stopped"}
        /\ users = <<>> /\ tweets = <<>> /\ tlog = <<>>
        /\ dispatched = {}
        /\ last_poll_at = None

\* C19: without the keys the worker goes from its start to its end
\* without seeding, sleeping or polling, fetches and dispatches nothing
\* and writes no watermark.
C19_PollerDisabled ==
    /\ [](C19_WorkerNeverRuns)
    /\ [][(~creds /\ WorkerStep) =>
              (wpc = "start" /\ wpc' = "stopped" /\ watchlist' = watchlist)]_vars

C19_Witness ==
    /\ ~creds
    /\ wpc = "stopped"
    /\ \E i \in 1..Len(watchlist) :
           /\ watchlist[i].since_id = None
           /\ feed[watchlist[i].user_id] > 0

\* C20: without the keys an add of a handle that is not watched is not
\* refused for want of the keys.
C20_AddWithoutKeys ==
    ~creds => reply # Reply("add", "err", "no_keys", 0)

(*************************************************************************)
(* C21: a failed delivery is swallowed                                   *)
(*************************************************************************)
HookFails == HookOutcomes(token, hook_up) # {"sent"}

\* a failed or impossible hook call leaves the dispatch loop where a delivered
\* one would
C21_LoopContinues ==
    [][(PollDispatchStep /\ HookFails) =>
          /\ ui' = ui /\ tweets' = tweets
          /\ wpc' = IF ti < Len(tweets) THEN "poll_dispatch" ELSE "poll_advance"]_vars

\* every user whose watermark write was reached had all fetched tweets handed
\* to the hook in ascending order, failures among them included
C21_AllHandedOver ==
    \A i \in 1..Len(tlog) :
        (tlog[i].failed # <<>> /\ tlog[i].adv # "none") =>
            /\ Range(tlog[i].fired) = tlog[i].got
            /\ StrictlyAscending(tlog[i].fired)

\* after failures the watermark still goes to the maximum fetched id and the
\* tick goes on to the next user of its snapshot
C21_WatermarkStillAdvances ==
    [][(PollAdvanceStep /\ tlog[Len(tlog)].failed # <<>>) =>
          /\ wpc' = PollNext(users, ui)
          /\ LET key == Upper(users[ui].username)
             IN  DictHas(watchlist, key) =>
                     /\ DictHas(watchlist', key)
                     /\ DictGet(watchlist', key).since_id
                            = SetMax(tlog[Len(tlog)].got)]_vars

\* no tweet is handed to the hook a second time, whatever its first outcome
C21_NotRedispatched ==
    [][(/\ PollDispatchStep
        /\ Upper(users[ui].username) = TrackedKey
        /\ DictHas(watchlist, TrackedKey))
          => <<users[ui].user_id, tweets[ti]>> \notin dispatched]_vars

\* C21: if the hook call fails or cannot be made for a tweet during a tick,
\* the remaining tweets of that account are still dispatched in order, the
\* account's watermark still advances to the maximum fetched id, the tick
\* continues with the other accounts, and the failed tweet is not dispatched
\* again in a later tick.
C21_DeliveryFailureSwallowed ==
    /\ C21_LoopContinues
    /\ []C21_AllHandedOver
    /\ C21_WatermarkStillAdvances
    /\ C21_NotRedispatched

\* a tick whose first user had two tweets, the first of them failed, its
\* watermark advanced, and whose second user was dispatched afterwards
C21_Witness ==
    /\ wpc = "poll_finish"
    /\ Len(tlog) = 2
    /\ Len(tlog[1].fired) = 2
    /\ tlog[1].failed # <<>>
    /\ tlog[1].failed[1] = tlog[1].fired[1]
    /\ tlog[1].adv = "set"
    /\ DictGet(watchlist, Upper(tlog[1].user.username)).since_id = SetMax(tlog[1].got)
    /\ tlog[2].fired # <<>>

(*************************************************************************)
(* C22: the user_id stored under a key                                   *)
(*************************************************************************)
\* C22: as long as a key of the watchlist is neither removed nor replaced by
\* a restore, the user_id stored under it never changes, under any
\* interleaving of concurrent adds, seeding and poll ticks, and whatever the
\* resolver returns to later adds.
C22_UserIdImmutable ==
    [][\A key \in DictKeys(watchlist) :
          (DictHas(watchlist', key) /\ ~RestoreStep) =>
              DictGet(watchlist', key).user_id = DictGet(watchlist, key).user_id]_vars

(*************************************************************************)
(* C23: what the seeding pass does                                       *)
(*************************************************************************)
SeedPcs == {"seed_fetch", "seed_advance"}

\* the snapshot holds exactly the entries without a watermark, and only they
\* are fetched
C23_OnlyAbsentSeeded ==
    /\ [][(wpc = "seed_snap" /\ wpc' # wpc) =>
             \A i \in 1..Len(watchlist) :
                 (watchlist[i].since_id = None) <=> (watchlist[i] \in Range(users'))]_vars
    /\ [](wpc \in SeedPcs =>
             /\ ui \in 1..Len(users)
             /\ \A i \in 1..Len(users) : users[i].since_id = None)

\* a fetch that returns tweets leads to the write of their maximum into the
\* entry under the user's key, if it is still there, and to no other change
C23_SeedsMaximum ==
    /\ [][(wpc = "seed_fetch" /\ wpc' = "seed_advance") =>
             /\ newest' = SetMax(GetUsersTweets(users[ui].user_id, None, MaxResults))
             /\ watchlist' = watchlist]_vars
    /\ [][SeedAdvanceStep =>
             LET key == Upper(users[ui].username)
             IN  /\ DictHas(watchlist, key) =>
                        watchlist' = SetSinceId(watchlist, key, newest)
                 /\ ~DictHas(watchlist, key) => watchlist' = watchlist
                 /\ wpc' = SeedNext(users, ui)]_vars

\* a fetch that fails or returns nothing writes nothing and the pass goes on
\* with the next user of its snapshot
C23_FailureIsolated ==
    [][(wpc = "seed_fetch" /\ WorkerStep /\ wpc' # "seed_advance") =>
          /\ watchlist' = watchlist
          /\ wpc' = SeedNext(users, ui)
          /\ ui < Len(users) => (users' = users /\ ui' = ui + 1)]_vars

\* nothing is handed to the hook while the pass runs
C23_NoDispatch ==
    [][(wpc \in SeedPcs \cup {"seed_snap"}) =>
          /\ dispatched' \subseteq dispatched
          /\ tlog' = tlog /\ tlog = <<>>
          /\ wpc' # "poll_dispatch"]_vars

\* C23: the seeding pass considers only entries whose watermark is absent at
\* its snapshot; for each such entry whose fetch returns tweets it sets the
\* watermark to the maximum returned id and dispatches nothing; an entry whose
\* fetch fails or returns nothing keeps its absent watermark, one entry's
\* failure does not prevent seeding of the others, and entries with a
\* watermark at the snapshot are not fetched.
C23_SeedingPass ==
    /\ C23_OnlyAbsentSeeded
    /\ C23_SeedsMaximum
    /\ C23_FailureIsolated
    /\ C23_NoDispatch

\* the pass left a restored entry with a watermark out of its snapshot, could
\* not fetch (or got nothing for) its first user, who keeps no watermark, and
\* has fetched the second user's tweets without a hook call
C23_Witness ==
    /\ wpc = "seed_advance"
    /\ Len(watchlist) = 3
    /\ Len(users) = 2 /\ ui = 2
    /\ \E i \in 1..3 : watchlist[i].since_id # None
    /\ DictHas(watchlist, Upper(users[1].username))
    /\ DictGet(watchlist, Upper(users[1].username)).since_id = None
    /\ feed[users[1].user_id] > 0
    /\ newest = MaxItem
    /\ DictHas(watchlist, Upper(users[2].username))
    /\ dispatched = {}

(*************************************************************************)
(* C24: _last_poll_at                                                    *)
(*************************************************************************)
\* C24: every poll tick that completes records its completion time in
\* _last_poll_at, whatever the watchlist held at the snapshot, an empty
\* watchlist and a tick whose every fetch failed included.
C24_TickRecordsTime ==
    [][(wpc \in PollPhases \cup {"poll_snap"} /\ wpc' = "loop") =>
          last_poll_at' = now]_vars

(*************************************************************************)
(* C25: the wait before a tick                                           *)
(*************************************************************************)
\* the worker begins a wait
WaitBegins == wpc = "loop" /\ wpc' = "sleep"

\* no wait was begun before: delay is assigned nowhere else and never to 0
FirstWait == delay = 0

\* C25: the wait before the first tick is 10 seconds whatever the interval
\* is; the wait before every later tick is the value the interval had when
\* that wait began: a set_interval made during a wait or a tick does not
\* change the wait in progress and is used by the next wait that begins.
C25_TickScheduling ==
    /\ [][WaitBegins =>
             delay' = IF FirstWait THEN FirstDelay ELSE poll_interval]_vars
    /\ [][delay' # delay => WaitBegins]_vars
    /\ [][WaitBegins => poll_interval' = poll_interval]_vars

\* a set_interval arrived during a later wait: the wait keeps the interval it
\* began with
C25_Witness ==
    /\ wpc = "sleep"
    /\ last_poll_at # None
    /\ delay = MIN_POLL_INTERVAL
    /\ poll_interval = MIN_POLL_INTERVAL + 1

(*************************************************************************)
(* C26: the poller's states                                              *)
(*************************************************************************)
PollerState(pc) ==
    IF pc = "start" THEN "Idle"
    ELSE IF pc \in {"seed_snap", "seed_fetch", "seed_advance"} THEN "Seeding"
    ELSE IF pc \in {"loop", "sleep"} THEN "Waiting"
    ELSE IF pc = "stopped" THEN "Stopped"
    ELSE "Polling"

PollerTransitions ==
    {<<"Idle", "Seeding">>, <<"Seeding", "Waiting">>, <<"Waiting", "Polling">>,
     <<"Polling", "Waiting">>, <<"Waiting", "Stopped">>}

C26_OnlyTransitions ==
    [][creds => \/ PollerState(wpc') = PollerState(wpc)
                \/ <<PollerState(wpc), PollerState(wpc')>> \in PollerTransitions]_vars

\* while seeding, no wait has begun and no tick has run or is running; while
\* polling, the seeding pass has returned
C26_SeedingBeforeTicks ==
    /\ PollerState(wpc) \in {"Idle", "Seeding"} =>
           /\ delay = 0 /\ last_poll_at = None
           /\ tlog = <<>> /\ tweets = <<>> /\ dispatched = {}
    /\ PollerState(wpc) = "Polling" => (delay # 0 /\ newest = None)

\* C26: with the keys set the poller moves only Idle -> Seeding -> Waiting,
\* Waiting -> Polling, Polling -> Waiting and Waiting -> Stopped; Seeding is
\* entered once, before the first tick, and never again, so users added
\* later are not seeded; seeding and polling never run at the same time.
C26_PollerStateMachine ==
    /\ C26_OnlyTransitions
    /\ []C26_SeedingBeforeTicks
    /\ (creds /\ wpc = "start") ~> (PollerState(wpc) = "Seeding")

\* the poller has seeded, waited, polled a user added after the seeding pass
\* and is in its second wait
C26_Witness ==
    /\ wpc = "sleep"
    /\ delay = poll_interval
    /\ last_poll_at # None
    /\ watchlist # <<>>

(*************************************************************************)
(* C27: ticks terminate and recur                                        *)
(*************************************************************************)
InTick == PollerState(wpc) = "Polling"

\* a tick is left only for the `while` test, every user of its snapshot
\* attempted once and in order
C27_TickEndsComplete ==
    [][(InTick /\ PollerState(wpc') # "Polling") =>
          /\ wpc' = "loop"
          /\ Len(tlog) = Len(users)
          /\ \A i \in 1..Len(users) : tlog[i].user = users[i]]_vars

\* C27: every poll tick terminates and returns the poller to Waiting after
\* attempting each user of its snapshot exactly once, whether all, some or
\* none of the fetches succeed and even if the tick as a whole raises; under
\* fairness, while the stop flag is never set and the keys are present,
\* ticks occur infinitely often.
C27_TicksTerminateAndRecur ==
    /\ C27_TickEndsComplete
    /\ InTick ~> (wpc = "loop")
    /\ []<>(~worker_running \/ wpc = "poll_snap")

\* a tick in which one fetch failed and one succeeded has attempted both
\* users, after an earlier tick that completed
C27_Witness ==
    /\ wpc = "poll_finish"
    /\ worker_running
    /\ last_poll_at # None
    /\ Len(tlog) = 2
    /\ tlog[1].res = "fail"
    /\ tlog[2].res = "items"

(*************************************************************************)
(* C28: what add does to the watchlist                                   *)
(*************************************************************************)
\* an empty handle is an error and nothing changes
C28_EmptyHandle ==
    \A s \in Slots, f \in UsernameInputs :
        (AddStart(s, f) /\ f.t # "num" /\ NormalizeUsername(f.s) = <<>>) =>
            /\ reply'.op = "add" /\ reply'.st = "err"
            /\ watchlist' = watchlist
            /\ adds' = adds

\* the call goes on to the resolver with the caller's handle, stripped
C28_Unwatched ==
    \A s \in Slots :
        (adds[s].pc = "idle" /\ adds'[s].pc = "resolve") =>
            /\ \E f \in UsernameInputs :
                   /\ f.t = "str"
                   /\ adds'[s].username = NormalizeUsername(f.s)
            /\ adds'[s].username # <<>>
            /\ ~Watched(watchlist, adds'[s].username)
            /\ watchlist' = watchlist

\* a failed resolution is an error and nothing changes; a successful one
\* carries the resolver's user id to the insert
C28_Resolution ==
    \A s \in Slots :
        adds[s].pc = "resolve" =>
            /\ adds'[s].pc = "idle" =>
                   (reply'.op = "add" /\ reply'.st = "err" /\ watchlist' = watchlist)
            /\ adds'[s].pc = "insert" =>
                   /\ creds
                   /\ adds'[s].user_id # None
                   /\ adds'[s].user_id = directory[Upper(adds[s].username)]
                   /\ adds'[s].username = adds[s].username
                   /\ watchlist' = watchlist

\* the insert of a handle that is not watched appends one entry and touches
\* no other
C28_Insert ==
    \A s \in Slots :
        (AddInsertStep(s) /\ ~DictHas(watchlist, adds[s].key)) =>
            /\ Len(watchlist') = Len(watchlist) + 1
            /\ SubSeq(watchlist', 1, Len(watchlist)) = watchlist
            /\ LET e == watchlist'[Len(watchlist')]
               IN  /\ e.username = adds[s].username
                   /\ e.key = Upper(adds[s].username)
                   /\ e.user_id = adds[s].user_id
                   /\ e.since_id = None
            /\ reply'.op = "add" /\ reply'.st = "ok"

\* C28: an add of a handle that is not watched inserts exactly one new
\* entry, with the caller's handle, the resolved user id and no watermark,
\* and leaves every other entry unchanged, iff the resolution succeeds; when
\* the resolution fails or the handle is empty, add returns an error and the
\* watchlist is what it was before the call.
C28_AddOutcome ==
    [][C28_EmptyHandle /\ C28_Unwatched /\ C28_Resolution /\ C28_Insert]_vars

\* an add has just put a second entry behind one that was there
C28_Witness ==
    /\ reply.op = "add" /\ reply.st = "ok" /\ reply.msg = "now_watching"
    /\ Len(watchlist) = 2
    /\ watchlist[2].username = HandleOther
    /\ watchlist[2].user_id = reply.n
    /\ watchlist[2].since_id = None
    /\ watchlist[1].since_id # None

(*************************************************************************)
(* C29: hook calls after a remove                                        *)
(*************************************************************************)
\* C29: once remove(h) has returned, nothing is handed to the hook for the
\* user of h unless h is added or restored again afterwards, also when the
\* remove runs during a tick whose snapshot holds h.
C29_NoDispatchAfterRemove ==
    [][PollDispatchStep => DictHas(watchlist, Upper(users[ui].username))]_vars

(*************************************************************************)
(* C30: whose tweets a watermark comes from                              *)
(*************************************************************************)
\* C30: every watermark written by the seeding pass or a tick into an entry
\* was computed from tweets fetched for that entry's own user_id, also when
\* the key was removed and added again, or replaced by a restore, with
\* another user_id between the snapshot and the write.
C30_WatermarkOfOwnAccount ==
    [][(PollAdvanceStep \/ SeedAdvanceStep) =>
          LET key == Upper(users[ui].username)
          IN  (DictHas(watchlist', key)
                 /\ DictGet(watchlist', key).since_id # None)
              => DictGet(watchlist', key).user_id = users[ui].user_id]_vars

(*************************************************************************)
(* C31: the count a restore returns                                      *)
(*************************************************************************)
\* C31: the count returned by a successful restore is the number of entries
\* the watchlist holds right after it, for every payload, entries without a
\* username or user_id and two entries whose usernames differ only in case
\* included.
C31_RestoredCountTruthful ==
    [][\A body \in EntryBodies :
          (BackupRestore(body) /\ reply'.st = "ok")
              => reply'.n = Len(watchlist')]_vars

(*************************************************************************)
(* C32: keys and usernames                                               *)
(*************************************************************************)
\* every entry is stored under the upper-cased form of its own username
C32_KeyIsUpperUsername ==
    \A i \in 1..Len(watchlist) : watchlist[i].key = Upper(watchlist[i].username)

\* a watermark write of the seeding pass or a tick changes at most the entry
\* stored under the key of the snapshot user's username
C32_AdvanceTouchesOwnKey ==
    [][(PollAdvanceStep \/ SeedAdvanceStep) =>
          /\ Len(watchlist') = Len(watchlist)
          /\ \A i \in 1..Len(watchlist) :
                 watchlist'[i] # watchlist[i] =>
                     /\ watchlist[i].key = Upper(users[ui].username)
                     /\ Upper(watchlist[i].username) = Upper(users[ui].username)]_vars

\* C32: in every reachable state every key of the watchlist is the
\* upper-cased username of the entry under it, after any sequence of add,
\* remove, restore, seeding and ticks; so a watermark write addressed by an
\* entry's username touches only the entry under that username's key.
C32_KeyHandleConsistency ==
    /\ []C32_KeyIsUpperUsername
    /\ C32_AdvanceTouchesOwnKey

\* a tick has written the watermark of a restored "@a", and an added "a" is
\* watched beside it under its own key
C32_Witness ==
    /\ wpc \in PollPhases
    /\ \E i \in 1..Len(tlog) :
           /\ tlog[i].user.username = HandleAt
           /\ tlog[i].adv = "set"
    /\ DictHas(watchlist, Upper(HandleAt))
    /\ DictGet(watchlist, Upper(HandleAt)).since_id # None
    /\ DictHas(watchlist, Upper(HandleLower))
    /\ DictGet(watchlist, Upper(HandleLower)).username = HandleLower

(*************************************************************************)
(* C33: remove by the stored username                                    *)
(*************************************************************************)
\* C33: for every entry of the watchlist, added or restored, a remove with
\* the username stored in that entry deletes it and reports that it was
\* watched, entries restored with a leading "@" or surrounding whitespace
\* included.
C33_EveryEntryRemovable ==
    [][\A i \in 1..Len(watchlist) :
          Remove(FStr(watchlist[i].username)) =>
              /\ reply' = Reply("remove", "ok", "stopped", 0)
              /\ ~DictHas(watchlist', watchlist[i].key)]_vars

=============================================================================
